---- MODULE Spec2Model ----
(***************************************************************************)
(* Browser-side OIDC Authorization Code + PKCE client with email-domain    *)
(* IdP routing (KeycloakProvider, LoginButtons, Callback).                 *)
(*                                                                         *)
(* One browser tab is modelled: the two storages, the window of the page   *)
(* currently loaded, the React state of the mounted component, and every   *)
(* invocation of the provider's asynchronous methods with the await it is  *)
(* suspended on.                                                           *)
(*                                                                         *)
(* Conventions.  A nullable JavaScript value is None (null / undefined /   *)
(* absent key) or Some(v).  A string that the code takes apart (an email)  *)
(* is a sequence of symbols; "@", "." and " " are one-character symbols    *)
(* and every other symbol stands for a non-empty run of ordinary           *)
(* characters.  A template literal is the tuple of its parts.              *)
(***************************************************************************)
EXTENDS Naturals, Sequences, FiniteSets, TLC

None == <<>>
Some(v) == <<v>>

----------------------------------------------------------------------------
(* Bounds of the model *)

\* login attempts (verifiers generated) per behaviour
MaxLogins == 2
\* provider.handleCallback invocations on one page load
MaxCalls == 2
\* times the Callback effect fires on one page load
MaxEffects == 2
\* symbols of the generated emails the pure helpers are applied to
MaxEmailLen == 4
\* calls of logger methods in one behaviour
MaxLogCalls == 2

----------------------------------------------------------------------------
(* Inputs *)

\* process.env settings read by the constructor (all unset: the defaults apply)
Env == [REACT_APP_KEYCLOAK_URL |-> None,
        REACT_APP_KEYCLOAK_REALM |-> None,
        REACT_APP_KEYCLOAK_CLIENT_ID |-> None]

\* window.location.origin
origin == "http://localhost:3001"

\* what the user may have typed in the email box when Login is clicked
EmailGmail == <<"user", "@", "gmail", ".", "com">>
EmailGmailUpper == <<"user", "@", "GMAIL", ".", "COM">>
EmailOutlook == <<"user", "@", "outlook", ".", "com">>
EmailOther == <<"user", "@", "example", ".", "org">>
EmailInvalid == <<"invalid">>
EmailPadded == <<" ", "user", "@", "outlook", ".", "com", " ">>
EmailBlank == <<" ">>
EmailInputs == {<<>>, EmailBlank, EmailGmail, EmailGmailUpper, EmailOutlook,
                EmailPadded, EmailOther, EmailInvalid}

\* authorization codes the broker may put in the callback URL
Codes == {"code1", "code2"}

\* answers of the token endpoint
TokenResponses ==
    { [ok |-> TRUE, status |-> "200", body |-> "",
       access_token |-> "AT1", id_token |-> Some("IT1")],
      [ok |-> TRUE, status |-> "200", body |-> "",
       access_token |-> "AT2", id_token |-> None],
      [ok |-> FALSE, status |-> "400", body |-> "invalid_grant",
       access_token |-> "", id_token |-> None],
      [ok |-> FALSE, status |-> "500", body |-> "server_error",
       access_token |-> "", id_token |-> None] }

\* claims the userinfo endpoint may return
UserClaims ==
    { [sub |-> "u1", name |-> Some("U One"), preferred_username |-> Some("uone"),
       email |-> EmailGmail, picture |-> None],
      [sub |-> "u2", name |-> None, preferred_username |-> Some("utwo"),
       email |-> EmailOutlook, picture |-> Some("https://example.com/avatar.jpg")],
      [sub |-> "u3", name |-> None, preferred_username |-> None,
       email |-> EmailOther, picture |-> None] }

NoClaims == [sub |-> "", name |-> None, preferred_username |-> None,
             email |-> <<>>, picture |-> None]

\* answers of the userinfo endpoint
UserInfoResponses ==
    { [ok |-> TRUE, status |-> "200", body |-> "", claims |-> c] : c \in UserClaims }
    \cup { [ok |-> FALSE, status |-> "401", body |-> "unauthorized", claims |-> NoClaims] }

----------------------------------------------------------------------------
(* Strings *)

toLowerCaseSym(c) ==
    CASE c = "GMAIL" -> "gmail"
      [] c = "COM" -> "com"
      [] OTHER -> c

toLowerCase(s) == [i \in 1..Len(s) |-> toLowerCaseSym(s[i])]

\* String.prototype.split(sep): the segments between the separators
RECURSIVE split(_, _)
split(s, sep) ==
    IF \A i \in 1..Len(s) : s[i] # sep
    THEN <<s>>
    ELSE LET k == CHOOSE i \in 1..Len(s) :
                      s[i] = sep /\ \A j \in 1..(i - 1) : s[j] # sep
         IN <<SubSeq(s, 1, k - 1)>> \o split(SubSeq(s, k + 1, Len(s)), sep)

\* a variant of trim: surrounding blanks are kept
trim_none(s) == s

\* String.prototype.trim()
RECURSIVE trim(_)
trim(s) ==
    IF s = <<>> THEN s
    ELSE IF Head(s) = " " THEN trim(Tail(s))
    ELSE IF s[Len(s)] = " " THEN trim(SubSeq(s, 1, Len(s) - 1))
    ELSE s

----------------------------------------------------------------------------
(* KeycloakProvider: configuration and pure methods *)

\* the KeycloakProvider instance of the mounted component: its three fields
VARIABLE provider

\* a variant of OrDefault: only an unset setting is replaced, '' is kept
OrDefault_unsetOnly(setting, default) ==
    IF setting # None THEN setting[1] ELSE default

\* `a || b` on an environment setting: unset and '' are both falsy
OrDefault(setting, default) ==
    IF setting # None /\ setting[1] # "" THEN setting[1] ELSE default

\* new KeycloakProvider()
KeycloakProvider(env) ==
    [baseUrl |-> OrDefault(env.REACT_APP_KEYCLOAK_URL, "http://localhost:8080/auth"),
     realm |-> OrDefault(env.REACT_APP_KEYCLOAK_REALM, "idp-redirector-demo"),
     clientId |-> OrDefault(env.REACT_APP_KEYCLOAK_CLIENT_ID, "react-oidc-app")]

baseUrl == provider.baseUrl

realm == provider.realm

clientId == provider.clientId

\* a variant of isConfigured: the realm is not looked at
isConfigured_ignoresRealm == baseUrl # "" /\ clientId # ""

isConfigured == baseUrl # "" /\ realm # "" /\ clientId # ""

\* `${baseUrl}/realms/${realm}/protocol/openid-connect/<endpoint>?<query>`
BrokerUrl(endpoint, query) ==
    [base |-> baseUrl, realm |-> realm, endpoint |-> endpoint, query |-> query]

\* the relative URL '/'
RootUrl == [base |-> "", realm |-> "", endpoint |-> "/", query |-> <<>>]

\* the table of determineLoginHintFromEmail: <<domain, hint>>
domainMappings ==
    { << <<"gmail", ".", "com">>, "google" >>,
      << <<"outlook", ".", "com">>, "microsoft" >>,
      << <<"hotmail", ".", "com">>, "microsoft" >>,
      << <<"live", ".", "com">>, "microsoft" >>,
      << <<"msn", ".", "com">>, "microsoft" >> }

\* the property names an object literal inherits from Object.prototype that
\* are their own lowercase form, with the (truthy) value each reads as
ObjectPrototype ==
    { << <<"constructor">>, "function Object() { [native code] }" >>,
      << <<"__proto__">>, "[object Object]" >> }

\* `table[key]` on an object literal with the own properties `table`
lookup(table, key) ==
    LET own == {m \in table : m[1] = key}
        inherited == {m \in ObjectPrototype : m[1] = key}
    IN IF own # {} THEN Some((CHOOSE m \in own : TRUE)[2])
       ELSE IF inherited # {} THEN Some((CHOOSE m \in inherited : TRUE)[2])
       ELSE None

\* a variant of determineLoginHintFromEmail: the domain is not lowercased
determineLoginHintFromEmail_caseSensitive(email) ==
    LET parts == split(email, "@")
    IN IF Len(parts) >= 2 THEN lookup(domainMappings, parts[2]) ELSE None

\* `email.split('@')[1]?.toLowerCase()`, looked up; undefined reads as null
determineLoginHintFromEmail(email) ==
    LET parts == split(email, "@")
    IN IF Len(parts) >= 2 THEN lookup(domainMappings, toLowerCase(parts[2]))
       ELSE None

\* a variant of isValidEmail: the '.' may stand anywhere in the domain
isValidEmail_anyDot(email) ==
    LET parts == split(email, "@")
    IN /\ \A i \in 1..Len(email) : email[i] # " "
       /\ Len(parts) = 2
       /\ Len(parts[1]) >= 1
       /\ \E k \in 1..Len(parts[2]) : parts[2][k] = "."

\* a variant of isValidEmail: every string passes
isValidEmail_always(email) == TRUE

\* /^[^\s@]+@[^\s@]+\.[^\s@]+$/
isValidEmail(email) ==
    LET parts == split(email, "@")
    IN /\ \A i \in 1..Len(email) : email[i] # " "
       /\ Len(parts) = 2
       /\ Len(parts[1]) >= 1
       /\ \E k \in 2..(Len(parts[2]) - 1) : parts[2][k] = "."

\* a string claim is truthy: present and not the empty string
truthy(claim) == claim # None /\ claim[1] # ""

\* a variant of normalizeUser: preferred_username is not consulted
normalizeUser_nameOnly(user) ==
    [id |-> user.sub,
     name |-> IF truthy(user.name) THEN user.name[1] ELSE "Unknown User",
     email |-> user.email,
     picture |-> user.picture,
     provider |-> "keycloak"]

normalizeUser(user) ==
    [id |-> user.sub,
     name |-> IF truthy(user.name) THEN user.name[1]
              ELSE IF truthy(user.preferred_username) THEN user.preferred_username[1]
              ELSE "Unknown User",
     email |-> user.email,
     picture |-> user.picture,
     provider |-> "keycloak"]

----------------------------------------------------------------------------
(* Callback: pure helper *)

\* the table of detectIdentityProvider: <<domain, label>>
providerMappings ==
    { << <<"gmail", ".", "com">>, "Google" >>,
      << <<"googlemail", ".", "com">>, "Google" >>,
      << <<"outlook", ".", "com">>, "Microsoft" >>,
      << <<"hotmail", ".", "com">>, "Microsoft" >>,
      << <<"live", ".", "com">>, "Microsoft" >>,
      << <<"msn", ".", "com">>, "Microsoft" >> }

detectIdentityProvider(email) ==
    IF email = <<>> THEN None
    ELSE LET parts == split(email, "@")
             found == IF Len(parts) >= 2
                      THEN lookup(providerMappings, toLowerCase(parts[2]))
                      ELSE None
         IN IF found = None THEN Some("Unknown Provider") ELSE found

----------------------------------------------------------------------------
(* utils/pkce *)

Verifiers == <<"verifier1", "verifier2", "verifier3", "verifier4">>

\* a variant of generateCodeVerifier: every call returns the same string
generateCodeVerifier_cached(n) == Verifiers[1]

\* the n-th call of generateCodeVerifier(): a fresh random string every call
generateCodeVerifier(n) == Verifiers[n]

\* a variant of generateCodeChallenge: the verifier is not digested
generateCodeChallenge_constant(verifier) == "challenge1"

\* base64url(SHA-256(verifier)), the value the awaited promise resolves to
generateCodeChallenge(verifier) ==
    CASE verifier = "verifier1" -> "challenge1"
      [] verifier = "verifier2" -> "challenge2"
      [] verifier = "verifier3" -> "challenge3"
      [] OTHER -> "challenge4"

----------------------------------------------------------------------------
(* JSON *)

\* the members of a JSON text that holds no object
NoUser == [id |-> None, name |-> None, email |-> None, picture |-> None,
           provider |-> None]

\* JSON.stringify of a normalized user: the text has one member per property
\* that is defined (id, name, email, provider are; picture may be undefined
\* and is then left out)
JSONstringify(user) ==
    [kind |-> "json",
     val |-> [id |-> Some(user.id), name |-> Some(user.name),
              email |-> Some(user.email), picture |-> user.picture,
              provider |-> Some(user.provider)]]

\* a stored string that is not JSON ('invalid-json{')
InvalidJson == [kind |-> "garbage", val |-> NoUser]

\* JSON.parse(text) throws a SyntaxError
JSONparseThrows(text) == text.kind # "json"

\* a variant of JSONparse: the picture member is lost
JSONparse_noPicture(text) ==
    [id |-> IF text.val.id # None THEN text.val.id[1] ELSE "",
     name |-> IF text.val.name # None THEN text.val.name[1] ELSE "",
     email |-> IF text.val.email # None THEN text.val.email[1] ELSE <<>>,
     picture |-> None,
     provider |-> IF text.val.provider # None THEN text.val.provider[1] ELSE ""]

\* JSON.parse(text): the object with the members of the text; a property the
\* text has no member for reads as undefined
JSONparse(text) ==
    [id |-> IF text.val.id # None THEN text.val.id[1] ELSE "",
     name |-> IF text.val.name # None THEN text.val.name[1] ELSE "",
     email |-> IF text.val.email # None THEN text.val.email[1] ELSE <<>>,
     picture |-> text.val.picture,
     provider |-> IF text.val.provider # None THEN text.val.provider[1] ELSE ""]

----------------------------------------------------------------------------
(* State *)

VARIABLES
    ss,                  \* sessionStorage: key -> None | Some(string)
    ls,                  \* localStorage: key -> None | Some(string)
    route,               \* window.location.pathname of the loaded page
    search,              \* window.location.search: [code, error]
    href,                \* navigation target assigned to window.location.href by this page
    callbackProcessed,   \* window.callbackProcessed
    effects,             \* times the Callback effect has fired on this page
    status,              \* Callback: status
    cbUserInfo,          \* Callback: userInfo
    cbIdentityProvider,  \* Callback: identityProvider
    isLoggedIn,          \* LoginButtons: isLoggedIn
    lbUserInfo,          \* LoginButtons: userInfo
    alert,               \* last window.alert message of this page
    frames,              \* src of the iframes appended to document.body
    generated,           \* calls of generateCodeVerifier() so far
    logins,              \* provider.login invocations of this page suspended at the digest
    calls,               \* provider.handleCallback invocations of this page, in order of start
    settled,             \* codes whose handleCallback has settled since the last verifier was stored
    lo,                  \* the provider.logout invocation in progress
    probe,               \* an email handed to the pure helpers and what each returned
    lc,                  \* the window that shows the LogoutCallback component
    lg                   \* the logger module, NODE_ENV and what the console received

vars == <<lg, lc, probe, provider, ss, ls, route, search, href, callbackProcessed, effects, status,
          cbUserInfo, cbIdentityProvider, isLoggedIn, lbUserInfo, alert, frames,
          generated, logins, calls, settled, lo>>

storageVars == <<ss, ls>>
windowVars == <<route, search, href, callbackProcessed, effects, frames>>
callbackVars == <<status, cbUserInfo, cbIdentityProvider>>
loginButtonsVars == <<isLoggedIn, lbUserInfo, alert>>
loginVars == <<generated, logins>>
pageVars == <<ss, ls, route, search, href, callbackProcessed, effects, status,
              cbUserInfo, cbIdentityProvider, isLoggedIn, lbUserInfo, alert, frames,
              generated, logins, calls, settled, lo>>

\* no window shows LogoutCallback
LogoutCallbackUnloaded ==
    [pc |-> "unloaded", parent |-> "window", posted |-> <<>>, warned |-> FALSE,
     uncaught |-> FALSE]

\* utils/logger is not loaded yet; NODE_ENV is `env`
LoggerUnloaded(env) ==
    [pc |-> "unloaded", env |-> env, loadedEnv |-> "", isDevelopment |-> FALSE,
     console |-> <<>>, calls |-> 0]

\* no helper has been applied
NoProbe == [email |-> <<>>, hint |-> None, valid |-> None, label |-> None,
            claims |-> NoClaims, identity |-> None,
            verifiers |-> <<"", "">>, challenges |-> <<None, None>>]

EmptySessionStorage == [keycloak_code_verifier |-> None, keycloak_id_token |-> None]

EmptyLocalStorage == [access_token |-> None, user_info |-> None,
                      auth_provider |-> None, identity_provider |-> None]

LogoutIdle == [pc |-> "idle", caller |-> "", path |-> "",
               idToken |-> None, identityProvider |-> None, url |-> None]

\* a synchronous run of logout() is between two of its statements
LogoutRunning == lo.pc \in {"clear", "frame", "navigate"}

\* a promise reaction is queued: it runs before any task (event, response, load)
MicrotaskPending ==
    \/ \E i \in 1..Len(calls) : calls[i].pc \in {"returned", "threw"}
    \/ \E l \in logins : l.pc = "built"

\* a task (user event, network response, digest completion, page load) may start
TaskMayRun == ~LogoutRunning /\ ~MicrotaskPending

\* the page has not started to navigate away
PageAlive == href = None

----------------------------------------------------------------------------
(* KeycloakProvider: storage and URLs *)

\* a variant of clearLocalStorage: the access token is left in place
clearLocalStorage_keepsToken(w) ==
    [ls |-> [w.ls EXCEPT !.user_info = None,
                         !.auth_provider = None],
     ss |-> [w.ss EXCEPT !.keycloak_code_verifier = None,
                         !.keycloak_id_token = None],
     callbackProcessed |-> FALSE]

\* clearLocalStorage(), on w = [ls, ss, callbackProcessed]
clearLocalStorage(w) ==
    [ls |-> [w.ls EXCEPT !.access_token = None,
                         !.user_info = None,
                         !.auth_provider = None],
     ss |-> [w.ss EXCEPT !.keycloak_code_verifier = None,
                         !.keycloak_id_token = None],
     callbackProcessed |-> FALSE]

\* a variant of buildAuthUrl: the verifier itself is sent as the challenge
buildAuthUrl_plainChallenge(redirectUri, scope, loginHint, codeVerifier) ==
    LET params == << <<"response_type", "code">>,
                     <<"client_id", clientId>>,
                     <<"redirect_uri", redirectUri>>,
                     <<"scope", scope>>,
                     <<"code_challenge", codeVerifier>>,
                     <<"code_challenge_method", "S256">> >>
    IN BrokerUrl("auth",
                 IF loginHint # None /\ loginHint[1] \in {"google", "microsoft"}
                 THEN Append(params, <<"kc_idp_hint", loginHint[1]>>)
                 ELSE params)

\* buildAuthUrl(redirectUri, scope, loginHint), the part after the awaited digest
buildAuthUrl(redirectUri, scope, loginHint, codeVerifier) ==
    LET params == << <<"response_type", "code">>,
                     <<"client_id", clientId>>,
                     <<"redirect_uri", redirectUri>>,
                     <<"scope", scope>>,
                     <<"code_challenge", generateCodeChallenge(codeVerifier)>>,
                     <<"code_challenge_method", "S256">> >>
    IN BrokerUrl("auth",
                 IF loginHint # None /\ loginHint[1] \in {"google", "microsoft"}
                 THEN Append(params, <<"kc_idp_hint", loginHint[1]>>)
                 ELSE params)

\* a variant of buildLogoutUrl: the id token is read after storage was cleared,
\* so no id_token_hint is sent
buildLogoutUrl_noHint(idToken) ==
    BrokerUrl("logout",
              << <<"client_id", clientId>>,
                 <<"post_logout_redirect_uri", <<origin, "/">> >> >>)

\* the end-session URL logout() builds
buildLogoutUrl(idToken) ==
    BrokerUrl("logout",
              << <<"client_id", clientId>>,
                 <<"id_token_hint", idToken>>,
                 <<"post_logout_redirect_uri", <<origin, "/">> >> >>)

\* a variant of idpLogoutUrl: a frame is loaded whatever the label is
idpLogoutUrl_anyLabel(identityProvider) ==
    IF identityProvider = "Microsoft"
    THEN Some("https://login.microsoftonline.com/common/oauth2/v2.0/logout")
    ELSE Some("https://accounts.google.com/logout")

\* the iframe src performIdpSpecificLogout picks for a provider label
idpLogoutUrl(identityProvider) ==
    IF identityProvider = "Google"
    THEN Some("https://accounts.google.com/logout")
    ELSE IF identityProvider = "Microsoft"
    THEN Some("https://login.microsoftonline.com/common/oauth2/v2.0/logout")
    ELSE None

\* performIdpSpecificLogout(identityProvider, idToken) on document.body's frames;
\* createThrows: document.createElement / appendChild throws (caught and logged)
performIdpSpecificLogout(identityProvider, idToken, createThrows, body) ==
    IF identityProvider = None \/ idToken = None THEN body
    ELSE IF idpLogoutUrl(identityProvider[1]) # None /\ ~createThrows
    THEN Append(body, idpLogoutUrl(identityProvider[1])[1])
    ELSE body

----------------------------------------------------------------------------
(* KeycloakProvider.handleCallback *)

MissingVerifier ==
    [name |-> "MissingVerifier",
     message |-> <<"PKCE code verifier not found. Please restart the authentication flow.">>]

\* a variant of TokenExchangeFailed: the response body is left out of the message
TokenExchangeFailed_noBody(response) ==
    [name |-> "TokenExchangeFailed",
     message |-> <<"Token exchange failed: ", response.status>>]

TokenExchangeFailed(response) ==
    [name |-> "TokenExchangeFailed",
     message |-> <<"Token exchange failed: ", response.status, " - ", response.body>>]

UserInfoFailed(response) ==
    [name |-> "UserInfoFailed",
     message |-> <<"Failed to get user info: ", response.status, " - ", response.body>>]

\* a variant of verifierMissing: the check of the verifier is dropped
verifierMissing_never(codeVerifier) == FALSE

\* `if (!codeVerifier)`
verifierMissing(codeVerifier) == codeVerifier = None

\* handleCallback(code, redirectUri) up to its first await: the new invocation
handleCallback(code, redirectUri) ==
    LET codeVerifier == ss.keycloak_code_verifier
        call == [code |-> code, redirectUri |-> redirectUri,
                 pc |-> "token", codeVerifier |-> codeVerifier,
                 tokenRequests |-> 1, userinfoRequests |-> 0, bearer |-> None,
                 tokens |-> None, user |-> None, error |-> None,
                 replay |-> code \in settled, afterSettled |-> settled # {}]
    IN IF verifierMissing(codeVerifier)
       THEN [call EXCEPT !.pc = "threw", !.tokenRequests = 0,
                         !.error = Some(MissingVerifier)]
       ELSE call

\* a variant of tokenFailed: the token request is sent once more before giving up
tokenFailed_retry(call, response) ==
    IF call.tokenRequests < 2
    THEN [call EXCEPT !.tokenRequests = @ + 1]
    ELSE [call EXCEPT !.pc = "threw", !.error = Some(TokenExchangeFailed(response))]

\* `if (!tokenResponse.ok) { ... throw ... }` on the invocation `call`
tokenFailed(call, response) ==
    [call EXCEPT !.pc = "threw", !.error = Some(TokenExchangeFailed(response))]

\* a variant of storeIdToken: the id token is not kept
storeIdToken_never(storage, id_token) == storage

\* `if (tokens.id_token) sessionStorage.setItem('keycloak_id_token', ...)`
storeIdToken(storage, id_token) ==
    IF id_token # None THEN [storage EXCEPT !.keycloak_id_token = id_token]
    ELSE storage

\* a variant of authorization: the id token is sent as bearer credential
authorization_idToken(tokens) ==
    <<"Bearer ", IF tokens.id_token # None THEN tokens.id_token[1] ELSE "undefined">>

\* the Authorization header of the userinfo request
authorization(tokens) == <<"Bearer ", tokens.access_token>>

\* the token response arrives: lines 140-165
TokenResponse(i, response) ==
    /\ TaskMayRun
    /\ calls[i].pc = "token"
    /\ IF ~response.ok
       THEN /\ calls' = [calls EXCEPT ![i] = tokenFailed(calls[i], response)]
            /\ settled' = IF calls'[i].pc = "threw"
                          THEN settled \cup {calls[i].code} ELSE settled
            /\ UNCHANGED ss
       ELSE LET tokens == [access_token |-> response.access_token,
                           id_token |-> response.id_token]
            IN /\ UNCHANGED settled
               /\ ss' = storeIdToken(ss, tokens.id_token)
               /\ calls' = [calls EXCEPT
                               ![i].pc = "userinfo",
                               ![i].tokens = Some(tokens),
                               ![i].userinfoRequests = 1,
                               ![i].bearer = Some(authorization(tokens))]
    /\ UNCHANGED <<lg, lc, probe, provider, ls, windowVars, callbackVars, loginButtonsVars, loginVars, lo>>

\* the userinfo response arrives: lines 167-186
UserInfoResponse(i, response) ==
    /\ TaskMayRun
    /\ calls[i].pc = "userinfo"
    /\ settled' = settled \cup {calls[i].code}
    /\ IF ~response.ok
       THEN /\ calls' = [calls EXCEPT ![i].pc = "threw",
                                      ![i].error = Some(UserInfoFailed(response))]
            /\ UNCHANGED ss
       ELSE /\ ss' = [ss EXCEPT !.keycloak_code_verifier = None]
            /\ calls' = [calls EXCEPT ![i].pc = "returned",
                                      ![i].user = Some(normalizeUser(response.claims))]
    /\ UNCHANGED <<lg, lc, probe, provider, ls, windowVars, callbackVars, loginButtonsVars, loginVars, lo>>

----------------------------------------------------------------------------
(* Callback component *)

\* a variant of alreadyProcessed: the flag is not tested
alreadyProcessed_never(flag) == FALSE

\* `if (window.callbackProcessed)`
alreadyProcessed(flag) == flag

\* a variant of callbackError: a code in the URL is used whatever else it carries
callbackError_codeFirst(query) ==
    IF query.code # None THEN None
    ELSE IF query.error # None THEN Some(<<"Error: ", query.error[1]>>)
    ELSE Some(<<"No authorization code received">>)

\* the status the effect stops with before it calls the provider: `if (error)`
\* first, then `if (!code)`; none when the URL carries a code and no error
callbackError(query) ==
    IF query.error # None THEN Some(<<"Error: ", query.error[1]>>)
    ELSE IF query.code = None THEN Some(<<"No authorization code received">>)
    ELSE None

\* a variant of storeSession: the provider label is not stored
storeSession_noLabel(storage, result, detectedProvider) ==
    [storage EXCEPT !.access_token = Some(result.tokens.access_token),
                    !.user_info = Some(JSONstringify(result.user)),
                    !.auth_provider = Some("keycloak")]

\* the four localStorage.setItem calls that follow a returned handleCallback
storeSession(storage, result, detectedProvider) ==
    [storage EXCEPT !.access_token = Some(result.tokens.access_token),
                    !.user_info = Some(JSONstringify(result.user)),
                    !.auth_provider = Some("keycloak"),
                    !.identity_provider =
                        IF detectedProvider # None THEN detectedProvider
                        ELSE Some("Unknown")]

\* the effect's handleCallback up to its first await
CallbackEffect ==
    /\ route = "callback" /\ PageAlive /\ TaskMayRun
    /\ effects < MaxEffects
    /\ effects' = effects + 1
    /\ IF alreadyProcessed(callbackProcessed)
       THEN UNCHANGED <<callbackProcessed, status, calls, settled>>
       ELSE /\ callbackProcessed' = TRUE
            /\ IF callbackError(search) # None
               THEN /\ status' = callbackError(search)[1]
                    /\ UNCHANGED <<calls, settled>>
               ELSE LET call == handleCallback(search.code[1], <<origin, "/callback">>)
                    IN /\ Len(calls) < MaxCalls
                       /\ status' = <<"Processing login...">>
                       /\ calls' = Append(calls, call)
                       /\ settled' = IF call.pc = "threw"
                                     THEN settled \cup {call.code} ELSE settled
    /\ UNCHANGED <<lg, lc, probe, provider, storageVars, route, search, href, frames, cbUserInfo,
                   cbIdentityProvider, loginButtonsVars, loginVars, lo>>

\* the effect's handleCallback after `await keycloakProvider.handleCallback(...)`
CallbackResume(i) ==
    /\ ~LogoutRunning
    /\ calls[i].pc \in {"returned", "threw"}
    /\ calls' = [calls EXCEPT ![i].pc = "consumed"]
    /\ IF calls[i].pc = "returned"
       THEN LET result == [tokens |-> calls[i].tokens[1], user |-> calls[i].user[1]]
                detectedProvider == detectIdentityProvider(result.user.email)
            IN /\ ls' = storeSession(ls, result, detectedProvider)
               /\ ss' = IF result.tokens.id_token # None
                        THEN [ss EXCEPT !.keycloak_id_token = result.tokens.id_token]
                        ELSE ss
               /\ cbUserInfo' = Some(result.user)
               /\ cbIdentityProvider' = detectedProvider
               /\ status' = IF detectedProvider # None
                            THEN <<detectedProvider[1], " login successful!">>
                            ELSE <<"Login successful!">>
       ELSE /\ status' = <<"Error: ">> \o calls[i].error[1].message
            /\ UNCHANGED <<storageVars, cbUserInfo, cbIdentityProvider>>
    /\ UNCHANGED <<lg, lc, probe, provider, windowVars, loginButtonsVars, loginVars, settled, lo>>

----------------------------------------------------------------------------
(* KeycloakProvider.logout: a synchronous run, one statement group per step *)

\* a variant of logoutAfter: the redirect is assigned first, storage cleared after
logoutAfter_navigateFirst(stmt, path) ==
    CASE stmt = "try" -> "navigate"
      [] stmt = "navigate" -> "clear"
      [] stmt = "clear" -> IF path = "idtoken" THEN "frame" ELSE "done"
      [] OTHER -> "done"

\* the order of the statements of logout(): the statement that follows `stmt`
\* on `path` ("idtoken": lines 219-240, "local": 243-247, "catch": 251-254)
logoutAfter(stmt, path) ==
    CASE stmt = "try" -> "clear"
      [] stmt = "clear" -> IF path = "idtoken" THEN "frame" ELSE "navigate"
      [] stmt = "frame" -> "navigate"
      [] OTHER -> "done"

\* the try block up to the branch on idToken (lines 204-229): the reads, in
\* order; JSON.parse throws after idToken is read and before identityProvider is
logoutTry(caller) ==
    LET idToken == ss.keycloak_id_token
        identityProvider == ls.identity_provider
        run == [pc |-> "try", caller |-> caller, path |-> "local",
                idToken |-> idToken, identityProvider |-> None, url |-> None]
        taken == IF ls.user_info # None /\ JSONparseThrows(ls.user_info[1])
                 THEN [run EXCEPT !.path = "catch"]
                 ELSE IF idToken # None
                 THEN [run EXCEPT !.path = "idtoken",
                                  !.identityProvider = identityProvider,
                                  !.url = Some(buildLogoutUrl(idToken[1]))]
                 ELSE [run EXCEPT !.identityProvider = identityProvider]
    IN [taken EXCEPT !.pc = logoutAfter("try", taken.path)]

\* a variant of logoutTarget: the catch block does not navigate
logoutTarget_noFallback(run) ==
    IF run.path = "idtoken" THEN run.url
    ELSE IF run.path = "catch" THEN None
    ELSE Some(RootUrl)

\* the target assigned to window.location.href at the end of each path
logoutTarget(run) == IF run.path = "idtoken" THEN run.url ELSE Some(RootUrl)

\* the user clicks a logout button: handleLogout of LoginButtons or of Callback
LogoutClick(caller) ==
    /\ PageAlive /\ TaskMayRun /\ lo.pc = "idle"
    /\ \/ caller = "LoginButtons" /\ route = "home" /\ isLoggedIn /\ lbUserInfo # None
       \/ caller = "Callback" /\ route = "callback" /\ cbUserInfo # None
    /\ status' = IF caller = "Callback"
                 THEN <<"Logging out from ",
                        IF cbIdentityProvider # None THEN cbIdentityProvider[1] ELSE "null",
                        "...">>
                 ELSE status
    /\ lo' = logoutTry(caller)
    /\ UNCHANGED <<lg, lc, probe, provider, storageVars, windowVars, cbUserInfo, cbIdentityProvider,
                   loginButtonsVars, loginVars, calls, settled>>

\* this.clearLocalStorage() on the path taken
LogoutClear ==
    /\ lo.pc = "clear"
    /\ LET w == clearLocalStorage([ls |-> ls, ss |-> ss,
                                   callbackProcessed |-> callbackProcessed])
       IN /\ ls' = w.ls
          /\ ss' = w.ss
          /\ callbackProcessed' = w.callbackProcessed
    /\ lo' = [lo EXCEPT !.pc = logoutAfter("clear", lo.path)]
    /\ UNCHANGED <<lg, lc, probe, provider, route, search, href, effects, frames, callbackVars,
                   loginButtonsVars, loginVars, calls, settled>>

\* this.performIdpSpecificLogout(identityProvider, idToken)
LogoutFrame ==
    /\ lo.pc = "frame"
    /\ \E createThrows \in BOOLEAN :
           frames' = performIdpSpecificLogout(lo.identityProvider, lo.idToken,
                                              createThrows, frames)
    /\ lo' = [lo EXCEPT !.pc = logoutAfter("frame", lo.path)]
    /\ UNCHANGED <<lg, lc, probe, provider, storageVars, route, search, href, callbackProcessed,
                   effects, callbackVars, loginButtonsVars, loginVars, calls, settled>>

\* window.location.href = ...; logout() settles and its caller resumes
LogoutNavigate ==
    /\ lo.pc = "navigate"
    /\ href' = logoutTarget(lo)
    /\ lo' = [lo EXCEPT !.pc = logoutAfter("navigate", lo.path)]
    /\ IF lo.caller = "LoginButtons"
       THEN lbUserInfo' = None /\ isLoggedIn' = FALSE
       ELSE UNCHANGED <<lbUserInfo, isLoggedIn>>
    /\ UNCHANGED <<lg, lc, probe, provider, storageVars, route, search, callbackProcessed, effects,
                   frames, callbackVars, alert, loginVars, calls, settled>>

\* the user clicks a logout button and `await keycloakProvider.logout()` rejects
\* (a provider whose logout() fails, as the components' tests stub it): the
\* catch block of handleLogout.  LoginButtons clears storage and its state at
\* once; Callback shows the error and arms its one-second timer.
LogoutRejected(caller) ==
    /\ PageAlive /\ TaskMayRun /\ lo.pc = "idle"
    /\ \/ caller = "LoginButtons" /\ route = "home" /\ isLoggedIn /\ lbUserInfo # None
       \/ caller = "Callback" /\ route = "callback" /\ cbUserInfo # None
    /\ IF caller = "LoginButtons"
       THEN LET w == clearLocalStorage([ls |-> ls, ss |-> ss,
                                        callbackProcessed |-> callbackProcessed])
            IN /\ ls' = w.ls
               /\ ss' = w.ss
               /\ callbackProcessed' = w.callbackProcessed
               /\ lbUserInfo' = None /\ isLoggedIn' = FALSE
               /\ UNCHANGED <<status, lo>>
       ELSE /\ status' = <<"Logout error, redirecting...">>
            /\ lo' = [LogoutIdle EXCEPT !.pc = "timer", !.caller = caller]
            /\ UNCHANGED <<ss, ls, callbackProcessed, lbUserInfo, isLoggedIn>>
    /\ UNCHANGED <<lg, lc, probe, provider, route, search, href, effects, frames, cbUserInfo,
                   cbIdentityProvider, alert, loginVars, calls, settled>>

\* the timer of Callback's catch block fires: storage is cleared, then the
\* browser is sent to the application root
LogoutFallback ==
    /\ TaskMayRun /\ lo.pc = "timer"
    /\ LET w == clearLocalStorage([ls |-> ls, ss |-> ss,
                                   callbackProcessed |-> callbackProcessed])
       IN /\ ls' = w.ls
          /\ ss' = w.ss
          /\ callbackProcessed' = w.callbackProcessed
    /\ href' = Some(RootUrl)
    /\ lo' = [lo EXCEPT !.pc = "done"]
    /\ UNCHANGED <<lg, lc, probe, provider, route, search, effects, frames, callbackVars,
                   loginButtonsVars, loginVars, calls, settled>>

----------------------------------------------------------------------------
(* LoginButtons component and KeycloakProvider.login *)

\* the mount effect: the session check, on l = localStorage
sessionCheck(l) ==
    IF l.access_token # None /\ l.user_info # None
    THEN IF JSONparseThrows(l.user_info[1])
         THEN [ls |-> [l EXCEPT !.access_token = None, !.user_info = None],
               isLoggedIn |-> FALSE, userInfo |-> None]
         ELSE [ls |-> l, isLoggedIn |-> TRUE,
               userInfo |-> Some(JSONparse(l.user_info[1]))]
    ELSE [ls |-> l, isLoggedIn |-> FALSE, userInfo |-> None]

NotConfigured == [name |-> "NotConfigured", message |-> <<"Keycloak not configured">>]

\* login(redirectUri, loginHint) up to the digest awaited inside buildAuthUrl:
\* the new invocation, rejected at once when the provider is not configured
login(redirectUri, loginHint) ==
    LET l == [pc |-> "digest", redirectUri |-> redirectUri, loginHint |-> loginHint,
              codeVerifier |-> Some(generateCodeVerifier(generated + 1)),
              authUrl |-> None, error |-> None]
    IN IF ~isConfigured
       THEN [l EXCEPT !.pc = "threw", !.codeVerifier = None,
                      !.error = Some(NotConfigured)]
       ELSE l

\* the user clicks Login with `email` in the box: handleLogin up to the digest
\* awaited inside provider.login -> buildAuthUrl
handleLogin(email) ==
    /\ route = "home" /\ ~(isLoggedIn /\ lbUserInfo # None)
    /\ PageAlive /\ TaskMayRun
    /\ generated < MaxLogins
    /\ IF ~isConfigured
       THEN /\ alert' = Some(<<"Keycloak is not configured. Please check your environment variables.">>)
            /\ UNCHANGED loginVars
       ELSE IF trim(email) # <<>> /\ ~isValidEmail(trim(email))
       THEN /\ alert' = Some(<<"Please enter a valid email address">>)
            /\ UNCHANGED loginVars
       ELSE LET loginHint == IF trim(email) # <<>>
                             THEN determineLoginHintFromEmail(trim(email))
                             ELSE None
                l == login(<<origin, "/callback">>, loginHint)
            IN IF l.pc = "threw"
               THEN /\ alert' = Some(<<"Failed to initiate login: ">> \o l.error[1].message)
                    /\ UNCHANGED loginVars
               ELSE /\ generated' = generated + 1
                    /\ logins' = logins \cup {l}
                    /\ UNCHANGED alert
    /\ UNCHANGED <<lg, lc, probe, provider, storageVars, windowVars, callbackVars, isLoggedIn,
                   lbUserInfo, calls, settled, lo>>

\* a variant of storeVerifier: a verifier already stored is not replaced
storeVerifier_keepFirst(storage, codeVerifier) ==
    IF storage.keycloak_code_verifier # None THEN storage
    ELSE [storage EXCEPT !.keycloak_code_verifier = Some(codeVerifier)]

\* sessionStorage.setItem('keycloak_code_verifier', codeVerifier)
storeVerifier(storage, codeVerifier) ==
    [storage EXCEPT !.keycloak_code_verifier = Some(codeVerifier)]

\* the digest completes: buildAuthUrl stores the verifier and returns the URL
LoginResume(l) ==
    /\ TaskMayRun
    /\ l \in logins /\ l.pc = "digest"
    /\ LET authUrl == buildAuthUrl(l.redirectUri, "openid email profile",
                                   l.loginHint, l.codeVerifier[1])
       IN /\ ss' = storeVerifier(ss, l.codeVerifier[1])
          /\ logins' = (logins \ {l})
                           \cup {[l EXCEPT !.pc = "built", !.authUrl = Some(authUrl)]}
    /\ settled' = {}
    /\ UNCHANGED <<lg, lc, probe, provider, ls, windowVars, callbackVars, loginButtonsVars,
                   generated, calls, lo>>

\* login after `await this.buildAuthUrl(...)`: window.location.href = authUrl
LoginNavigate(l) ==
    /\ ~LogoutRunning
    /\ l \in logins /\ l.pc = "built"
    /\ href' = l.authUrl
    /\ logins' = logins \ {l}
    /\ UNCHANGED <<lg, lc, probe, provider, storageVars, route, search, callbackProcessed, effects,
                   frames, callbackVars, loginButtonsVars, generated, calls, settled, lo>>

\* hints a caller may pass to provider.login
LoginHints == {None, Some("google"), Some("microsoft"), Some("facebook")}

\* provider.login(redirectUri, loginHint) called on the provider as it is
LoginCall(loginHint) ==
    /\ TaskMayRun
    /\ generated < MaxLogins
    /\ LET l == login(<<origin, "/callback">>, loginHint)
       IN /\ logins' = logins \cup {l}
          /\ generated' = IF l.pc = "threw" THEN generated ELSE generated + 1
    /\ UNCHANGED <<lg, lc, probe, provider, storageVars, windowVars, callbackVars, loginButtonsVars,
                   calls, settled, lo>>

----------------------------------------------------------------------------
(* The browser *)

NoSearch == [code |-> None, error |-> None]

Searches == {NoSearch}
            \cup {[code |-> Some(c), error |-> None] : c \in Codes}
            \cup {[code |-> None, error |-> Some("access_denied")]}
            \cup {[code |-> Some(c), error |-> Some("access_denied")] : c \in Codes}

\* a page of the application is loaded (redirect, reload or typed URL): a new
\* window; what the old page awaited is never resumed.  App mounts LoginButtons
\* (whose effect runs the session check) or Callback.
LoadPage(pathname, query) ==
    /\ TaskMayRun
    /\ route' = pathname
    /\ search' = IF pathname = "callback" THEN query ELSE NoSearch
    /\ href' = None
    /\ callbackProcessed' = FALSE
    /\ effects' = 0
    /\ frames' = <<>>
    /\ alert' = None
    /\ status' = <<"Processing...">>
    /\ cbUserInfo' = None
    /\ cbIdentityProvider' = None
    /\ lo' = LogoutIdle
    /\ calls' = <<>>
    /\ logins' = {}
    /\ IF pathname = "home"
       THEN LET c == sessionCheck(ls)
            IN ls' = c.ls /\ isLoggedIn' = c.isLoggedIn /\ lbUserInfo' = c.userInfo
       ELSE ls' = ls /\ isLoggedIn' = FALSE /\ lbUserInfo' = None
    /\ provider' = KeycloakProvider(Env)
    /\ UNCHANGED <<lg, lc, probe, ss, generated, settled>>

\* the stored identity record is damaged outside the application
CorruptUserInfo ==
    /\ TaskMayRun
    /\ ls.user_info # None /\ ~JSONparseThrows(ls.user_info[1])
    /\ ls' = [ls EXCEPT !.user_info = Some(InvalidJson)]
    /\ UNCHANGED <<lg, lc, probe, provider, ss, windowVars, callbackVars, loginButtonsVars, loginVars,
                   calls, settled, lo>>

----------------------------------------------------------------------------
(* Specification *)

\* the first page load of a tab with empty storage
PageInit ==
    /\ lc = LogoutCallbackUnloaded
    /\ ss = EmptySessionStorage
    /\ ls = EmptyLocalStorage
    /\ route = "home"
    /\ search = NoSearch
    /\ href = None
    /\ callbackProcessed = FALSE
    /\ effects = 0
    /\ status = <<"Processing...">>
    /\ cbUserInfo = None
    /\ cbIdentityProvider = None
    /\ isLoggedIn = FALSE
    /\ lbUserInfo = None
    /\ alert = None
    /\ frames = <<>>
    /\ generated = 0
    /\ logins = {}
    /\ calls = <<>>
    /\ settled = {}
    /\ lo = LogoutIdle

Init ==
    /\ lg = LoggerUnloaded("production")
    /\ provider = KeycloakProvider(Env)
    /\ probe = NoProbe
    /\ PageInit

Next ==
    \/ \E email \in EmailInputs : handleLogin(email)
    \/ \E l \in logins : LoginResume(l)
    \/ \E l \in logins : LoginNavigate(l)
    \/ \E pathname \in {"home", "callback"}, query \in Searches : LoadPage(pathname, query)
    \/ CallbackEffect
    \/ \E i \in 1..Len(calls), response \in TokenResponses : TokenResponse(i, response)
    \/ \E i \in 1..Len(calls), response \in UserInfoResponses : UserInfoResponse(i, response)
    \/ \E i \in 1..Len(calls) : CallbackResume(i)
    \/ \E caller \in {"LoginButtons", "Callback"} : LogoutClick(caller)
    \/ LogoutClear
    \/ LogoutFrame
    \/ LogoutNavigate
    \/ CorruptUserInfo

Spec == Init /\ [][Next]_vars

\* the provider under every setting of its three fields, with provider.login
\* called on it directly
ProviderSettings ==
    [baseUrl : {"", "http://localhost:8080/auth"},
     realm : {"", "idp-redirector-demo"},
     clientId : {"", "react-oidc-app"}]

ProviderInit ==
    /\ lg = LoggerUnloaded("production")
    /\ provider \in ProviderSettings
    /\ probe = NoProbe
    /\ PageInit

ProviderNext ==
    \/ \E loginHint \in LoginHints : LoginCall(loginHint)
    \/ \E email \in EmailInputs : handleLogin(email)
    \/ \E l \in logins : LoginResume(l)
    \/ \E l \in logins : LoginNavigate(l)

ProviderSpec == ProviderInit /\ [][ProviderNext]_vars

\* a variant of isEmbedded: the parent is not compared with the window
isEmbedded_always(parent) == TRUE

\* `window.parent && window.parent !== window`, in the window named "window"
isEmbedded(parent) == parent # "window"

\* a window loads /logout and App mounts LogoutCallback: a frame of the
\* broker's page (window.parent is that page) or a tab (window.parent is the
\* window itself)
LoadLogoutCallback(parent) ==
    /\ lc.pc = "unloaded"
    /\ lc' = [LogoutCallbackUnloaded EXCEPT !.pc = "mounted", !.parent = parent]
    /\ UNCHANGED <<lg, probe, provider, pageVars>>

\* the mount effect of LogoutCallback; postThrows: window.parent.postMessage
\* throws, which the effect catches and logs as a warning
LogoutCallbackEffect(postThrows) ==
    /\ lc.pc = "mounted"
    /\ lc' = IF isEmbedded(lc.parent)
             THEN IF postThrows
                  THEN [lc EXCEPT !.pc = "done", !.warned = TRUE]
                  ELSE [lc EXCEPT !.pc = "done",
                                  !.posted = Append(@, <<"logout-complete", "*">>)]
             ELSE [lc EXCEPT !.pc = "done"]
    /\ UNCHANGED <<lg, probe, provider, pageVars>>

\* the application and a window on its /logout route
FrameNext ==
    \/ Next
    \/ \E parent \in {"window", "broker"} : LoadLogoutCallback(parent)
    \/ \E postThrows \in BOOLEAN : LogoutCallbackEffect(postThrows)

FrameSpec == Init /\ [][FrameNext]_vars

\* process.env as the build may set it: each setting unset, empty or set
Envs ==
    [REACT_APP_KEYCLOAK_URL : {None, Some(""), Some("https://sso.example.com")},
     REACT_APP_KEYCLOAK_REALM : {None, Some(""), Some("demo")},
     REACT_APP_KEYCLOAK_CLIENT_ID : {None, Some(""), Some("demo-app")}]

\* the provider as the constructor builds it under each of these settings,
\* with the login handler and provider.login running on it
ConstructorInit ==
    /\ lg = LoggerUnloaded("production")
    /\ provider \in {KeycloakProvider(env) : env \in Envs}
    /\ probe = NoProbe
    /\ PageInit

ConstructorSpec == ConstructorInit /\ [][ProviderNext]_vars

\* values of process.env.NODE_ENV
NodeEnvs == {"development", "production", "test"}

\* methods of the logger, and argument lists they are called with
LoggerMethods == {"log", "warn", "error", "debug"}
LoggerArgs == { <<"Test message">>, <<"Message", "data", "123">> }

\* a variant of forwards: logger.error is silenced outside development too
forwards_devOnly(method, isDevelopment) == isDevelopment

\* whether a logger method hands its arguments to the console method of the
\* same name: error always, the others under `if (isDevelopment)`
forwards(method, isDevelopment) == method = "error" \/ isDevelopment

\* the module is evaluated: `isDevelopment` is fixed from NODE_ENV
LoadLogger ==
    /\ lg.pc = "unloaded"
    /\ lg' = [lg EXCEPT !.pc = "loaded", !.loadedEnv = lg.env,
                        !.isDevelopment = (lg.env = "development")]
    /\ UNCHANGED <<lc, probe, provider, pageVars>>

\* process.env.NODE_ENV is assigned another value
SetNodeEnv(env) ==
    /\ lg.env # env
    /\ lg' = [lg EXCEPT !.env = env]
    /\ UNCHANGED <<lc, probe, provider, pageVars>>

\* logger[method](...args)
LoggerCall(method, args) ==
    /\ lg.pc = "loaded" /\ lg.calls < MaxLogCalls
    /\ lg' = [lg EXCEPT !.calls = @ + 1,
                        !.console = IF forwards(method, lg.isDevelopment)
                                    THEN Append(@, <<method, args>>) ELSE @]
    /\ UNCHANGED <<lc, probe, provider, pageVars>>

LoggerInit ==
    /\ lg \in {LoggerUnloaded(env) : env \in NodeEnvs}
    /\ provider = KeycloakProvider(Env)
    /\ probe = NoProbe
    /\ PageInit

LoggerNext ==
    \/ LoadLogger
    \/ \E env \in NodeEnvs : SetNodeEnv(env)
    \/ \E method \in LoggerMethods, args \in LoggerArgs : LoggerCall(method, args)

LoggerSpec == LoggerInit /\ [][LoggerNext]_vars

\* the application with a provider whose logout() may also reject
HandlerNext ==
    \/ Next
    \/ \E caller \in {"LoginButtons", "Callback"} : LogoutRejected(caller)
    \/ LogoutFallback

HandlerSpec == Init /\ [][HandlerNext]_vars

\* strings of at most MaxEmailLen symbols over an ordinary run, '@', '.' and ' '
ShortEmails == UNION {[1..n -> {"a", "@", ".", " "}] : n \in 0..MaxEmailLen}

\* addresses over the domains of the two tables, with more than one '@', and
\* with a property name of Object.prototype as domain
NamedEmails ==
    { <<"user", "@", d, ".", "com">> :
          d \in {"gmail", "GMAIL", "googlemail", "outlook", "hotmail", "live",
                 "msn", "yahoo"} }
    \cup { EmailGmailUpper, EmailOther, EmailPadded, EmailInvalid,
           <<"a", "@", "b", ".", "com">>,
           <<"a", "@", "gmail", ".", "com", "@", "evil", ".", "org">>,
           <<"a", "@", "b", "@", "gmail", ".", "com">>,
           <<"user", "@", "constructor">>,
           <<"user", "@", "__proto__">> }

\* raw claims handed to normalizeUser: a name and a preferred_username that are
\* absent, empty or set, with and without email and picture
ClaimsInputs ==
    [sub : {"u1", "u2"},
     name : {None, Some(""), Some("U One")},
     preferred_username : {None, Some(""), Some("uone")},
     email : {<<>>, EmailGmail},
     picture : {None, Some("https://example.com/avatar.jpg")}]

\* the pure helpers of the provider and of Callback, applied to one email or to
\* one set of claims
HelperInit ==
    /\ lg = LoggerUnloaded("production")
    /\ provider = KeycloakProvider(Env)
    /\ probe \in {[NoProbe EXCEPT !.email = e] : e \in ShortEmails \cup NamedEmails}
                    \cup {[NoProbe EXCEPT !.claims = c] : c \in ClaimsInputs}
                    \cup {[NoProbe EXCEPT !.verifiers = <<v, w>>] :
                              v, w \in {Verifiers[n] : n \in 1..Len(Verifiers)}}
    /\ PageInit

\* keycloakProvider.determineLoginHintFromEmail(email)
RouteEmail ==
    /\ probe.hint = None
    /\ probe' = [probe EXCEPT !.hint = Some(determineLoginHintFromEmail(probe.email))]
    /\ UNCHANGED <<lg, lc, provider, pageVars>>

\* keycloakProvider.isValidEmail(email)
ValidateEmail ==
    /\ probe.valid = None
    /\ probe' = [probe EXCEPT !.valid = Some(isValidEmail(probe.email))]
    /\ UNCHANGED <<lg, lc, provider, pageVars>>

\* detectIdentityProvider(email)
DetectProvider ==
    /\ probe.label = None
    /\ probe' = [probe EXCEPT !.label = Some(detectIdentityProvider(probe.email))]
    /\ UNCHANGED <<lg, lc, provider, pageVars>>

\* keycloakProvider.normalizeUser(user)
NormalizeClaims ==
    /\ probe.identity = None
    /\ probe' = [probe EXCEPT !.identity = Some(normalizeUser(probe.claims))]
    /\ UNCHANGED <<lg, lc, provider, pageVars>>

\* `await generateCodeChallenge(verifier)` on the k-th verifier of the pair
DeriveChallenge(k) ==
    /\ probe.verifiers[k] # "" /\ probe.challenges[k] = None
    /\ probe' = [probe EXCEPT
                    !.challenges[k] = Some(generateCodeChallenge(probe.verifiers[k]))]
    /\ UNCHANGED <<lg, lc, provider, pageVars>>

HelperNext ==
    \/ RouteEmail
    \/ ValidateEmail
    \/ DetectProvider
    \/ NormalizeClaims
    \/ \E k \in 1..2 : DeriveChallenge(k)

HelperSpec == HelperInit /\ [][HelperNext]_vars

\* logout() has no await: once started, its statements run to the end
FairSpec ==
    Spec /\ WF_vars(LogoutClear) /\ WF_vars(LogoutFrame) /\ WF_vars(LogoutNavigate)

----------------------------------------------------------------------------
(* Properties *)

PersistedKeysAbsent ==
    /\ ss.keycloak_code_verifier = None
    /\ ss.keycloak_id_token = None
    /\ ls.access_token = None
    /\ ls.user_info = None
    /\ ls.identity_provider = None

LocallyUnauthenticated == ls.access_token = None /\ ls.user_info = None

\* the values of the query parameter `name` of `url`
QueryValues(url, name) ==
    {url.query[k][2] : k \in {j \in 1..Len(url.query) : url.query[j][1] = name}}

\* `url` is the broker end-session URL for `idToken`
IsEndSessionUrl(url, idToken) ==
    /\ url.base = baseUrl /\ url.realm = realm /\ url.endpoint = "logout"
    /\ QueryValues(url, "client_id") = {clientId}
    /\ QueryValues(url, "id_token_hint") = {idToken}
    /\ QueryValues(url, "post_logout_redirect_uri") = {<<origin, "/">>}

\* C1: every handleCallback invocation that found a stored verifier leaves the
\* verifier key absent from sessionStorage at the moment it settles, whether it
\* returns or throws at the token exchange or at the userinfo request.
VerifierAbsentWhenCallbackSettles ==
    \A i \in 1..Len(calls) :
        (calls[i].pc \in {"returned", "threw"} /\ calls[i].codeVerifier # None)
            => ss.keycloak_code_verifier = None

\* C2: a handleCallback invocation that starts after an invocation with the same
\* code has settled (no verifier stored in between) fails with the
\* missing-verifier error and sends no token request.
ReplayedCodeFailsFast ==
    \A i \in 1..Len(calls) :
        calls[i].replay
            => (calls[i].error = Some(MissingVerifier) /\ calls[i].tokenRequests = 0)

\* C3: no handleCallback invocation is suspended on the token request or on the
\* userinfo request while the verifier key is still in sessionStorage.
NoSuspensionWithVerifierStored ==
    \A i \in 1..Len(calls) :
        calls[i].pc \in {"token", "userinfo"} => ss.keycloak_code_verifier = None

\* C4: on one page load, however often the Callback effect fires,
\* provider.handleCallback is invoked at most once and at most one token request
\* is sent.
OneCallbackAttemptPerPage ==
    /\ Len(calls) <= 1
    /\ Cardinality({i \in 1..Len(calls) : calls[i].tokenRequests > 0}) <= 1

\* C4 witness: the effect fired more than once on a page whose first firing
\* invoked handleCallback and sent the token request.
EffectRefiredAfterAttempt ==
    /\ effects >= 2 /\ callbackProcessed
    /\ Len(calls) = 1 /\ calls[1].tokenRequests = 1

\* C5: when logout() has finished, by any path, none of the five persisted keys
\* (verifier, id token, access token, user_info, identity_provider) is stored.
LogoutLeavesNoPersistedKey == lo.pc = "done" => PersistedKeysAbsent

\* C6: whenever a logout() run has assigned the navigation target, access_token
\* and user_info are already removed from localStorage.
StorageClearedBeforeNavigation ==
    (lo.pc # "idle" /\ href # None) => LocallyUnauthenticated

\* C6 witness: a logout started from the logged-in view (access_token and
\* user_info stored) has assigned its navigation target.
LogoutFromSessionNavigated ==
    lo.pc = "done" /\ lo.caller = "LoginButtons" /\ href # None

\* C7 (as stated): whenever logout() started with an id token in sessionStorage,
\* the navigation target it sets is the broker end-session URL with client_id,
\* id_token_hint equal to that id token and post_logout_redirect_uri the root.
IdTokenLogoutTargetsEndSession ==
    (lo.pc = "done" /\ lo.idToken # None)
        => (href # None /\ IsEndSessionUrl(href[1], lo.idToken[1]))

\* C7 (amended): whenever logout() started with an id token in sessionStorage
\* and reading storage raised no exception, the navigation target is that
\* end-session URL; when reading storage threw (user_info does not parse), the
\* target is the application root.
IdTokenLogoutTargetsEndSessionUnlessThrown ==
    (lo.pc = "done" /\ lo.idToken # None)
        => IF lo.path = "catch"
           THEN href = Some(RootUrl)
           ELSE href # None /\ IsEndSessionUrl(href[1], lo.idToken[1])

\* C7 witness: a logout that started with an id token and did not throw has
\* navigated.
IdTokenLogoutNavigated ==
    lo.pc = "done" /\ lo.idToken # None /\ lo.path = "idtoken" /\ href # None

\* C8: when logout() started with no id token, at its end all storage keys are
\* cleared, the navigation target is the application root, no end-session URL
\* was built and no upstream logout frame was created.
LocalLogoutClearsAll ==
    (lo.pc = "done" /\ lo.idToken = None)
        => /\ PersistedKeysAbsent
           /\ href = Some(RootUrl)
           /\ lo.url = None
           /\ frames = <<>>

\* C9: a logout() run always reaches its end, with access_token and user_info
\* removed and a navigation target set; a run in which reading storage threw
\* ends with storage cleared and the application root as target.
LogoutEndsUnauthenticated ==
    /\ LogoutRunning ~> (lo.pc = "done" /\ LocallyUnauthenticated /\ href # None)
    /\ []((lo.pc = "done" /\ lo.path = "catch")
            => (LocallyUnauthenticated /\ href = Some(RootUrl)))

\* C9 witness: a logout whose read of user_info threw has finished.
LogoutAfterExceptionEnded == lo.pc = "done" /\ lo.path = "catch"

\* C10: an invocation of handleCallback that finds no verifier stored throws the
\* missing-verifier error in the same step, with no token or userinfo request
\* sent and both storages unchanged.
MissingVerifierFailsFast ==
    [][(Len(calls') = Len(calls) + 1 /\ ss.keycloak_code_verifier = None)
         => LET call == calls'[Len(calls')]
            IN /\ call.pc = "threw"
               /\ call.error = Some(MissingVerifier)
               /\ call.tokenRequests = 0 /\ call.userinfoRequests = 0
               /\ ss' = ss /\ ls' = ls]_vars

\* C10 witness: handleCallback was invoked with no verifier stored and threw.
MissingVerifierThrown ==
    \E i \in 1..Len(calls) :
        calls[i].codeVerifier = None /\ calls[i].error = Some(MissingVerifier)

\* `url` is the broker authorization URL with the required parameters and the
\* challenge of `verifier`
IsAuthUrlFor(url, verifier) ==
    /\ url.base = baseUrl /\ url.realm = realm /\ url.endpoint = "auth"
    /\ QueryValues(url, "response_type") = {"code"}
    /\ QueryValues(url, "client_id") = {clientId}
    /\ QueryValues(url, "redirect_uri") = {<<origin, "/callback">>}
    /\ QueryValues(url, "scope") = {"openid email profile"}
    /\ QueryValues(url, "code_challenge") = {generateCodeChallenge(verifier)}
    /\ QueryValues(url, "code_challenge_method") = {"S256"}

\* the page starts to navigate to a broker authorization URL
NavigatesToAuthUrl == href' # href /\ href' # None /\ href'[1].endpoint = "auth"

\* C11: whenever login() assigns the authorization URL as navigation target,
\* a verifier is already in sessionStorage under keycloak_code_verifier, the
\* URL's code_challenge is the challenge of that stored verifier, and the URL
\* carries response_type=code, client_id, redirect_uri, scope and
\* code_challenge_method=S256.
NavigationCarriesStoredVerifiersChallenge ==
    [][NavigatesToAuthUrl
         => /\ ss.keycloak_code_verifier # None
            /\ ss'.keycloak_code_verifier = ss.keycloak_code_verifier
            /\ IsAuthUrlFor(href'[1], ss.keycloak_code_verifier[1])]_vars

\* C11 witness: login() has navigated to an authorization URL and the verifier
\* is stored.
LoginNavigatedWithVerifierStored ==
    /\ href # None /\ href[1].endpoint = "auth"
    /\ ss.keycloak_code_verifier # None
    /\ logins = {}

\* the hint the routing table of the claim gives: the lowercased part after the
\* last '@'
RouterHint(email) ==
    LET parts == split(email, "@")
        domain == toLowerCase(parts[Len(parts)])
    IN IF Len(parts) < 2 THEN None
       ELSE IF domain = <<"gmail", ".", "com">> THEN Some("google")
       ELSE IF domain \in { <<"outlook", ".", "com">>, <<"hotmail", ".", "com">>,
                            <<"live", ".", "com">>, <<"msn", ".", "com">> }
       THEN Some("microsoft")
       ELSE None

\* well-formed emails over the domains of the table and two outside it
RouterEmails ==
    { <<"user", "@", d, ".", "com">> :
          d \in {"gmail", "GMAIL", "outlook", "hotmail", "live", "msn", "yahoo"} }
    \cup {EmailGmailUpper, EmailOther}

\* C12: for every email entered at login, provider.login receives the hint the
\* router gives for the (trimmed) email, the authorization URL built for it
\* has kc_idp_hint exactly when there is a hint, with the hint as value, and
\* that URL is the one navigated to; gmail.com gives google, outlook.com,
\* hotmail.com, live.com and msn.com give microsoft, no email or an unmapped
\* domain gives no parameter.
HintParameterFollowsRouter ==
    [][/\ \A e \in RouterEmails : determineLoginHintFromEmail(e) = RouterHint(e)
       /\ \A e \in EmailInputs :
              handleLogin(e) => \A l \in logins' \ logins :
                                    l.loginHint = RouterHint(trim(e))
       /\ \A l \in logins' :
              l.pc = "built"
                  => QueryValues(l.authUrl[1], "kc_idp_hint")
                         = IF l.loginHint = None THEN {} ELSE {l.loginHint[1]}
       /\ NavigatesToAuthUrl
              => \E l \in logins : l.pc = "built" /\ href' = l.authUrl]_vars

\* C12 witness: an upper-case gmail address was entered and the page navigated
\* to a URL with kc_idp_hint=google.
NavigatedWithGoogleHint ==
    /\ href # None /\ href[1].endpoint = "auth"
    /\ QueryValues(href[1], "kc_idp_hint") = {"google"}

\* one of the three settings of the provider is missing
MissingSetting == provider.baseUrl = "" \/ provider.realm = "" \/ provider.clientId = ""

\* C13: on a provider with the base URL, the realm or the client id missing,
\* every login() invocation fails with the not-configured error, no verifier is
\* generated, no digest is awaited, no verifier is stored and no navigation
\* target is set.
NotConfiguredFailsBeforeAnyEffect ==
    MissingSetting
        => /\ \A l \in logins : l.pc = "threw" /\ l.error = Some(NotConfigured)
           /\ generated = 0
           /\ ss.keycloak_code_verifier = None
           /\ href = None

\* C13 witness: login() was invoked on a provider with no realm and failed.
LoginFailedNotConfigured ==
    /\ provider.realm = "" /\ provider.baseUrl # "" /\ provider.clientId # ""
    /\ \E l \in logins : l.error = Some(NotConfigured)

\* emails that are supplied (non-empty after trimming) and not valid
InvalidEmails == {EmailInvalid}

\* C14 (as stated): when the email entered is supplied but not valid, the click
\* on Login starts a provider.login with hint none.
InvalidEmailProceedsWithoutHint ==
    [][\A e \in InvalidEmails :
           handleLogin(e) => \E l \in logins' \ logins : l.loginHint = None]_vars

\* C14 (amended): when the email entered is supplied but not valid, the click
\* on Login shows the alert 'Please enter a valid email address' and aborts:
\* provider.login is not invoked, no verifier is generated or stored and no
\* navigation target is set.
InvalidEmailAlertsAndAborts ==
    [][\A e \in InvalidEmails :
           handleLogin(e)
               => /\ alert' = Some(<<"Please enter a valid email address">>)
                  /\ UNCHANGED <<ss, href, logins, generated>>]_vars

\* C14 witness: the alert for an invalid email is shown, with no login started,
\* no verifier stored and no navigation.
InvalidEmailAlerted ==
    /\ alert = Some(<<"Please enter a valid email address">>)
    /\ logins = {} /\ generated = 0
    /\ ss.keycloak_code_verifier = None /\ href = None

\* the error a failed token exchange must carry: status and body of `response`
TokenErrorOf(response) ==
    [name |-> "TokenExchangeFailed",
     message |-> <<"Token exchange failed: ", response.status, " - ", response.body>>]

\* C15: when the token endpoint answers with a non-2xx status, handleCallback
\* throws the token-exchange error with the status and the body of the
\* response, sends no userinfo request, and neither it nor the handler that
\* catches the error writes to sessionStorage or localStorage.
TokenFailureEndsTheAttempt ==
    [][/\ \A i \in 1..Len(calls), r \in TokenResponses :
              (~r.ok /\ TokenResponse(i, r))
                  => /\ calls'[i].pc = "threw"
                     /\ calls'[i].error = Some(TokenErrorOf(r))
                     /\ calls'[i].userinfoRequests = 0
                     /\ ss' = ss /\ ls' = ls
       /\ \A i \in 1..Len(calls) :
              (calls[i].pc = "threw" /\ CallbackResume(i))
                  => /\ ss' = ss /\ ls' = ls
                     /\ calls'[i].userinfoRequests = calls[i].userinfoRequests]_vars

\* C15 witness: a call failed on a 500 answer of the token endpoint and the
\* handler has shown the error.
TokenFailureSurfaced ==
    \E i \in 1..Len(calls) :
        /\ calls[i].pc = "consumed"
        /\ calls[i].error
               = Some(TokenErrorOf([status |-> "500", body |-> "server_error"]))
        /\ calls[i].userinfoRequests = 0

\* the error a failed userinfo request must carry
UserInfoErrorOf(response) ==
    [name |-> "UserInfoFailed",
     message |-> <<"Failed to get user info: ", response.status, " - ", response.body>>]

\* C16: a userinfo request is sent exactly when the token response was
\* successful, with `Bearer <access token of that response>`; a non-2xx userinfo
\* response makes handleCallback throw the userinfo error; no step of
\* handleCallback (start, token response, userinfo response) writes localStorage.
UserInfoFollowsTokenSuccess ==
    [][/\ \A i \in 1..Len(calls), r \in TokenResponses :
              TokenResponse(i, r)
                  => /\ ls' = ls
                     /\ calls[i].userinfoRequests = 0
                     /\ (calls'[i].userinfoRequests = 1) <=> r.ok
                     /\ r.ok => calls'[i].bearer = Some(<<"Bearer ", r.access_token>>)
       /\ \A i \in 1..Len(calls), r \in UserInfoResponses :
              UserInfoResponse(i, r)
                  => /\ ls' = ls
                     /\ calls[i].tokens # None
                     /\ calls'[i].userinfoRequests = 1
                     /\ ~r.ok => /\ calls'[i].pc = "threw"
                                 /\ calls'[i].error = Some(UserInfoErrorOf(r))
                     /\ r.ok => calls'[i].pc = "returned"
       /\ Len(calls') = Len(calls) + 1
              => ls' = ls /\ calls'[Len(calls')].userinfoRequests = 0]_vars

\* C16 witness: a userinfo request carrying AT2 was answered 401 and the call
\* threw the userinfo error, with no access token in localStorage.
UserInfoFailureThrown ==
    \E i \in 1..Len(calls) :
        /\ calls[i].pc = "threw"
        /\ calls[i].bearer = Some(<<"Bearer ", "AT2">>)
        /\ calls[i].error
               = Some(UserInfoErrorOf([status |-> "401", body |-> "unauthorized"]))
        /\ ls.access_token = None

\* C17: when handleCallback returns after a token response with an id token,
\* sessionStorage holds that id token under keycloak_id_token; a token response
\* without id token, and the userinfo response, leave the key as it was.
IdTokenHeldWhenCallbackReturns ==
    [][/\ \A i \in 1..Len(calls') :
              (calls'[i].pc = "returned" /\ calls'[i].tokens[1].id_token # None)
                  => ss'.keycloak_id_token = calls'[i].tokens[1].id_token
       /\ \A i \in 1..Len(calls), r \in TokenResponses :
              (TokenResponse(i, r) /\ r.ok /\ r.id_token = None)
                  => ss'.keycloak_id_token = ss.keycloak_id_token
       /\ \A i \in 1..Len(calls), r \in UserInfoResponses :
              UserInfoResponse(i, r)
                  => ss'.keycloak_id_token = ss.keycloak_id_token]_vars

\* C17 witness: handleCallback has returned after a token response with IT1 and
\* IT1 is stored.
CallbackReturnedWithIdTokenStored ==
    \E i \in 1..Len(calls) :
        /\ calls[i].pc = "returned"
        /\ calls[i].tokens[1].id_token = Some("IT1")
        /\ ss.keycloak_id_token = Some("IT1")

\* C18: an invocation of handleCallback sends the token request at most once
\* and the userinfo request at most once; once an invocation has failed, it is
\* the only one of the page load and no request is in flight; the handler shows
\* the failure as 'Error: <message>' and no user.
NoRetryAfterFailure ==
    /\ \A i \in 1..Len(calls) :
           calls[i].tokenRequests <= 1 /\ calls[i].userinfoRequests <= 1
    /\ (\E i \in 1..Len(calls) : calls[i].error # None)
           => /\ Len(calls) = 1
              /\ calls[1].pc \in {"threw", "consumed"}
    /\ \A i \in 1..Len(calls) :
           (calls[i].pc = "consumed" /\ calls[i].error # None)
               => /\ status = <<"Error: ">> \o calls[i].error[1].message
                  /\ cbUserInfo = None

\* C18 witness: a call failed at userinfo, the handler has shown the error and
\* the effect has fired again on the same page.
FailureShownAndEffectRefired ==
    /\ effects >= 2
    /\ Len(calls) = 1 /\ calls[1].pc = "consumed"
    /\ calls[1].error # None /\ calls[1].error[1].name = "UserInfoFailed"

\* an invocation of handleCallback is suspended on a network request
CallbackSuspended ==
    \E i \in 1..Len(calls) : calls[i].pc \in {"token", "userinfo"}

\* C19: a handleCallback suspended on the token request or on the userinfo
\* request does not stay suspended forever, also when the endpoint never
\* answers.
HandleCallbackTerminates == CallbackSuspended ~> ~CallbackSuspended

\* C20: an invocation of handleCallback that returns an identity (the only way
\* to the authenticated state) did not start after another invocation had
\* settled with the verifier of the same login: after a failed attempt, only a
\* new login that stores a new verifier leads to a successful callback.
FailedExchangeIsTerminal ==
    \A i \in 1..Len(calls) :
        (calls[i].pc \in {"returned", "consumed"} /\ calls[i].user # None)
            => ~calls[i].afterSettled

\* the Callback component shows an error
CallbackStatusIsError ==
    /\ route = "callback"
    /\ Head(status) \in {"Error: ", "No authorization code received"}

\* C21: whenever the status of the callback handler is an error, access_token
\* and user_info are not both in localStorage.
ErrorStatusMeansNoSession ==
    CallbackStatusIsError => ~(ls.access_token # None /\ ls.user_info # None)

\* the session check of a page load of the application root
HomeLoaded == \E query \in Searches : LoadPage("home", query)

\* C22: when the session check finds access_token and user_info stored and
\* user_info does not parse, it shows the unauthenticated view and leaves none
\* of user_info, access_token, identity_provider, auth_provider and the id
\* token stored.
CorruptSessionRemovedWhole ==
    [][(HomeLoaded /\ ls.access_token # None /\ ls.user_info # None
            /\ JSONparseThrows(ls.user_info[1]))
         => /\ ~isLoggedIn' /\ lbUserInfo' = None
            /\ ls'.user_info = None /\ ls'.access_token = None
            /\ ls'.identity_provider = None /\ ls'.auth_provider = None
            /\ ss'.keycloak_id_token = None]_vars

\* the identities handleCallback can return
Identities == {normalizeUser(c) : c \in UserClaims}

\* C23: the callback handler stores the identity handleCallback returned; the
\* session check of a later page load that finds a stored identity (with the
\* access token) restores a record equal to it and shows the authenticated
\* view; the session check of the page load after a finished logout finds no
\* session.
SessionRoundTrip ==
    [][/\ \A i \in 1..Len(calls) :
              (calls[i].pc = "returned" /\ CallbackResume(i))
                  => \E u \in Identities :
                         /\ calls[i].user = Some(u)
                         /\ ls'.user_info = Some(JSONstringify(u))
                         /\ ls'.access_token # None
       /\ \A u \in Identities :
              (HomeLoaded /\ ls.access_token # None
                   /\ ls.user_info = Some(JSONstringify(u)))
                  => isLoggedIn' /\ lbUserInfo' = Some(u)
       /\ (HomeLoaded /\ lo.pc = "done")
              => ~isLoggedIn' /\ lbUserInfo' = None]_vars

\* C23 witness: the root page shows as logged in the identity with a picture
\* that a callback stored.
SessionRestoredWithPicture ==
    /\ route = "home" /\ isLoggedIn
    /\ lbUserInfo # None /\ lbUserInfo[1].id = "u2"
    /\ lbUserInfo[1].picture = Some("https://example.com/avatar.jpg")

----------------------------------------------------------------------------
(* The pure helpers (HelperSpec) *)

\* the positions of symbol c in s
Positions(s, c) == {i \in 1..Len(s) : s[i] = c}

\* the hint the static table assigns to the lowercased part after the last '@'
TableHint(email) ==
    LET ats == Positions(email, "@")
    IN IF ats = {} THEN None
       ELSE LET last == CHOOSE i \in ats : \A j \in ats : j <= i
                domain == toLowerCase(SubSeq(email, last + 1, Len(email)))
                hits == {m \in domainMappings : m[1] = domain}
            IN IF hits = {} THEN None ELSE Some((CHOOSE m \in hits : TRUE)[2])

\* C24: for every email, determineLoginHintFromEmail returns the hint the
\* table assigns to the lowercased substring after the last '@', none when
\* the table has no entry or the string has no '@', and nothing else.
RouterFollowsTable ==
    probe.hint # None => probe.hint[1] = TableHint(probe.email)

\* a non-empty local part, an '@', and a domain part after it holding a '.'
LocalAtDottedDomain(email) ==
    \E k \in Positions(email, "@") :
        /\ k > 1
        /\ \E j \in Positions(email, ".") : j > k

\* C25 (as stated): isValidEmail is true exactly when the string has a
\* non-empty local part, an '@' and a non-empty domain part containing a '.'.
ValidIffLocalAtDottedDomain ==
    probe.valid # None => (probe.valid[1] <=> LocalAtDottedDomain(probe.email))

\* no whitespace, exactly one '@' that is not the first symbol, and after it
\* a '.' that is neither the first nor the last symbol of the domain
OneAtInnerDot(email) ==
    /\ Positions(email, " ") = {}
    /\ Cardinality(Positions(email, "@")) = 1
    /\ \A k \in Positions(email, "@") :
          /\ k > 1
          /\ \E j \in Positions(email, ".") : j > k + 1 /\ j < Len(email)

\* C25 (amended): isValidEmail is true exactly when the string has no
\* whitespace, exactly one '@' with a non-empty local part before it, and a
\* domain part with a '.' that is neither its first nor its last character;
\* a@b.com is valid and a string without '@' is not.
ValidIffOneAtInnerDot ==
    probe.valid # None =>
        /\ probe.valid[1] <=> OneAtInnerDot(probe.email)
        /\ probe.email = <<"a", "@", "b", ".", "com">> => probe.valid[1]
        /\ probe.email = EmailInvalid => ~probe.valid[1]

\* isValidEmail has rejected an address the coarser reading accepts
DottedDomainEdgeRejected ==
    /\ probe.valid = Some(FALSE)
    /\ probe.email = <<"a", "@", ".">>

\* C26: the label computed at callback time is the router applied to the
\* email: 'Google' exactly when the hint is google, 'Microsoft' exactly when
\* it is microsoft, 'Unknown Provider' exactly when the router returns none.
LabelIsRouterApplied ==
    (probe.hint # None /\ probe.label # None) =>
        /\ (probe.label[1] = Some("Google")) <=> (probe.hint[1] = Some("google"))
        /\ (probe.label[1] = Some("Microsoft")) <=> (probe.hint[1] = Some("microsoft"))
        /\ (probe.label[1] = Some("Unknown Provider")) <=> (probe.hint[1] = None)

----------------------------------------------------------------------------
(* The callback handler and the login handler *)

\* the emails whose domain the callback's table maps to Google or Microsoft
RecognizedEmails == {EmailGmail, EmailGmailUpper, EmailOutlook}

\* C27: after a successful callback the status is '<label> login successful!'
\* when the returned email's domain maps to Google or Microsoft, and is
\* 'Login successful!' with 'Unknown Provider' stored as identity_provider when
\* the domain is not in the mapping.
SuccessStatusNamesRecognizedProvider ==
    [][\A i \in 1..Len(calls) :
           (CallbackResume(i) /\ calls[i].pc = "returned")
               => IF calls[i].user[1].email \in RecognizedEmails
                  THEN /\ ls'.identity_provider \in {Some("Google"), Some("Microsoft")}
                       /\ status' = <<ls'.identity_provider[1], " login successful!">>
                  ELSE /\ status' = <<"Login successful!">>
                       /\ ls'.identity_provider = Some("Unknown Provider")]_vars

BlankEmails == {<<>>, EmailBlank}

\* C30: when the email is non-empty after trimming and not valid, or the
\* provider is not configured, the login handler shows an alert and aborts
\* (provider.login is not invoked, no verifier is stored, no navigation); with
\* an empty email provider.login is invoked with hint null.
LoginHandlerGates ==
    [][\A e \in EmailInputs :
           handleLogin(e)
               => IF MissingSetting
                  THEN /\ alert' = Some(<<"Keycloak is not configured. Please check your environment variables.">>)
                       /\ UNCHANGED <<ss, href, logins, generated>>
                  ELSE IF e \in InvalidEmails
                  THEN /\ alert' = Some(<<"Please enter a valid email address">>)
                       /\ UNCHANGED <<ss, href, logins, generated>>
                  ELSE (e \in BlankEmails)
                           => /\ \E l \in logins' \ logins :
                                     l.pc = "digest" /\ l.loginHint = None
                              /\ alert' = alert]_vars

\* C30 witness: the not-configured alert is shown on a provider without a
\* client id, and no login was started.
NotConfiguredAlerted ==
    /\ provider.clientId = ""
    /\ alert = Some(<<"Keycloak is not configured. Please check your environment variables.">>)
    /\ logins = {} /\ generated = 0
    /\ ss.keycloak_code_verifier = None /\ href = None

----------------------------------------------------------------------------
(* The logout handlers of the two components (HandlerSpec) *)

\* every key clearLocalStorage removes is absent after the step
StorageClearedNext ==
    /\ ls'.access_token = None /\ ls'.user_info = None /\ ls'.auth_provider = None
    /\ ss'.keycloak_code_verifier = None /\ ss'.keycloak_id_token = None

\* C31: when provider.logout() rejects, LoginButtons clears the local storage
\* and resets its logged-in state, and Callback shows the error and, when its
\* fallback timer fires, clears the local storage and navigates to the root;
\* a fulfilled provider.logout() in LoginButtons resets the logged-in state too.
LogoutHandlersAlwaysSignOut ==
    [][/\ LogoutRejected("LoginButtons")
              => StorageClearedNext /\ ~isLoggedIn' /\ lbUserInfo' = None
       /\ LogoutRejected("Callback")
              => /\ status' = <<"Logout error, redirecting...">>
                 /\ lo'.pc = "timer"
       /\ LogoutFallback => StorageClearedNext /\ href' = Some(RootUrl)
       /\ (LogoutNavigate /\ lo.caller = "LoginButtons")
              => ~isLoggedIn' /\ lbUserInfo' = None]_vars

\* C31 witness: Callback's fallback ran after a rejected logout: the session
\* that was stored is gone and the browser is sent to the root.
CallbackFallbackSignedOut ==
    /\ route = "callback" /\ cbUserInfo # None
    /\ status = <<"Logout error, redirecting...">>
    /\ lo.pc = "done" /\ lo.caller = "Callback"
    /\ ls.access_token = None /\ href = Some(RootUrl)

\* C32: the upstream logout frame is created only when an id token is present
\* and the stored label is 'Google' or 'Microsoft', after the local storage is
\* cleared and before the primary navigation; whether or not creating it
\* fails, the navigation to the end-session URL is what follows.
UpstreamFrameIsBestEffort ==
    [][/\ Len(frames') > Len(frames)
              => /\ lo.pc = "frame" /\ lo.idToken # None
                 /\ lo.identityProvider \in {Some("Google"), Some("Microsoft")}
                 /\ ls.access_token = None /\ ls.user_info = None
                 /\ ss.keycloak_id_token = None
                 /\ href = None
       /\ LogoutFrame => (lo'.pc = "navigate" /\ lo'.url = lo.url /\ href' = None)
       /\ (LogoutNavigate /\ lo.path = "idtoken")
              => /\ lo.idToken # None
                 /\ href' = Some(BrokerUrl("logout",
                                 << <<"client_id", clientId>>,
                                    <<"id_token_hint", lo.idToken[1]>>,
                                    <<"post_logout_redirect_uri", <<origin, "/">> >> >>))]_vars

\* C32 witness: the Microsoft logout frame is in the document, storage is
\* cleared and the navigation has not been assigned yet.
UpstreamFrameBeforeNavigation ==
    /\ frames = <<"https://login.microsoftonline.com/common/oauth2/v2.0/logout">>
    /\ lo.pc = "navigate" /\ lo.path = "idtoken"
    /\ ls.access_token = None /\ ss.keycloak_id_token = None
    /\ href = None

----------------------------------------------------------------------------
(* normalizeUser (HelperSpec) *)

\* the claim is present and not empty
NonEmptyClaim(claim) == claim \notin {None, Some("")}

\* C33: normalizeUser maps sub to id, sets name to the name claim when it is
\* non-empty, otherwise to preferred_username, otherwise to 'Unknown User',
\* passes email and picture through unchanged and sets provider to 'keycloak'.
NormalizedIdentityFollowsClaims ==
    probe.identity # None =>
        LET c == probe.claims
            u == probe.identity[1]
        IN /\ u.id = c.sub
           /\ NonEmptyClaim(c.name) => u.name = c.name[1]
           /\ (~NonEmptyClaim(c.name) /\ NonEmptyClaim(c.preferred_username))
                  => u.name = c.preferred_username[1]
           /\ (~NonEmptyClaim(c.name) /\ ~NonEmptyClaim(c.preferred_username))
                  => u.name = "Unknown User"
           /\ u.email = c.email
           /\ u.picture = c.picture
           /\ u.provider = "keycloak"

\* C33 witness: claims with an empty name were normalized to the preferred
\* username, the picture carried over.
EmptyNameFellBackToUsername ==
    /\ probe.claims.name = Some("") /\ probe.claims.preferred_username = Some("uone")
    /\ probe.claims.picture # None
    /\ probe.identity # None
    /\ probe.identity[1].name = "uone"

----------------------------------------------------------------------------
(* LogoutCallback (FrameSpec) *)

\* C34: on load LogoutCallback posts 'logout-complete' to the parent window
\* exactly when the window is embedded, posts nothing when it is not, and a
\* postMessage that throws is caught and does not propagate.
SentinelPostedIffEmbedded ==
    [][\A postThrows \in BOOLEAN :
           LogoutCallbackEffect(postThrows)
               => /\ lc'.pc = "done" /\ ~lc'.uncaught
                  /\ (lc.parent # "window" /\ ~postThrows)
                         => lc'.posted = <<<<"logout-complete", "*">>>> /\ ~lc'.warned
                  /\ (lc.parent # "window" /\ postThrows)
                         => lc'.posted = lc.posted /\ lc'.warned
                  /\ lc.parent = "window"
                         => lc'.posted = <<>> /\ ~lc'.warned]_vars

\* C34 witness: an embedded LogoutCallback has posted the sentinel to its parent.
SentinelPostedToParent ==
    /\ lc.pc = "done" /\ lc.parent = "broker"
    /\ lc.posted = <<<<"logout-complete", "*">>>>

----------------------------------------------------------------------------
(* PKCE verifier and challenge *)

\* the verifiers generated so far, `generated` counting the calls
GeneratedSoFar == {Verifiers[k] : k \in 1..generated}

\* C35: each login attempt generates a new verifier, never one generated
\* before, and the storage step overwrites the stored verifier with the one of
\* the attempt that reaches it, so the single stored verifier is that of the
\* most recent attempt that reached the storage step.
FreshVerifierEachAttempt ==
    [][/\ \A l \in logins' \ logins :
              l.pc = "digest"
                  => /\ l.codeVerifier # None
                     /\ l.codeVerifier[1] \notin GeneratedSoFar
                     /\ l.codeVerifier # ss.keycloak_code_verifier
                     /\ \A m \in logins : m.codeVerifier # l.codeVerifier
       /\ \A l \in logins :
              LoginResume(l) => ss'.keycloak_code_verifier = l.codeVerifier]_vars

\* C35 witness: a second attempt has overwritten the verifier of the first.
SecondVerifierStored ==
    /\ generated = 2
    /\ ss.keycloak_code_verifier = Some("verifier2")

----------------------------------------------------------------------------
(* utils/logger (LoggerSpec) *)

\* C37: log, warn and debug hand their arguments unchanged to the console
\* method of the same name exactly when NODE_ENV was 'development' when the
\* module was loaded, and emit nothing otherwise; error hands them to
\* console.error in every environment.
LoggerForwardsByLoadTimeEnv ==
    [][\A method \in LoggerMethods, args \in LoggerArgs :
           LoggerCall(method, args)
               => IF method = "error" \/ lg.loadedEnv = "development"
                  THEN lg'.console = Append(lg.console, <<method, args>>)
                  ELSE lg'.console = lg.console]_vars

\* C37 witness: loaded in production and switched to development afterwards,
\* the logger has dropped a log call and passed an error call on.
ProductionLoggerPassedErrorOnly ==
    /\ lg.loadedEnv = "production" /\ lg.env = "development"
    /\ lg.calls = 2
    /\ lg.console = << <<"error", <<"Test message">> >> >>

----------------------------------------------------------------------------
(* Overlapping logins *)

\* C38: when login() invocations overlap, at every moment the browser can
\* carry out the navigation (no continuation is queued) the stored verifier is
\* the one whose challenge is in the authorization URL navigated to, and every
\* invocation that assigns its URL does so with its own verifier stored.
OverlapKeepsVerifierOfNavigatedUrl ==
    /\ (href # None /\ href[1].endpoint = "auth" /\ ~MicrotaskPending)
           => /\ ss.keycloak_code_verifier # None
              /\ QueryValues(href[1], "code_challenge")
                     = {generateCodeChallenge(ss.keycloak_code_verifier[1])}
    /\ \A l \in logins :
           l.pc = "built"
               => /\ ss.keycloak_code_verifier = l.codeVerifier
                  /\ QueryValues(l.authUrl[1], "code_challenge")
                         = {generateCodeChallenge(l.codeVerifier[1])}

\* C38 witness: two invocations overlapped; one has navigated with its verifier
\* stored while the other is still suspended at the digest.
OverlappingLoginNavigated ==
    /\ href # None /\ href[1].endpoint = "auth"
    /\ \E l \in logins :
           /\ l.pc = "digest"
           /\ l.codeVerifier # ss.keycloak_code_verifier
    /\ ss.keycloak_code_verifier # None
    /\ QueryValues(href[1], "code_challenge")
           = {generateCodeChallenge(ss.keycloak_code_verifier[1])}

----------------------------------------------------------------------------
(* The id token of a failed userinfo request *)

\* the userinfo request of invocation i fails after a token exchange that
\* returned an id token
UserInfoFailsAfterIdToken(i, response) ==
    /\ UserInfoResponse(i, response)
    /\ ~response.ok
    /\ calls[i].tokens[1].id_token # None

\* C39: when the token exchange returned an id token and the userinfo request
\* fails, handleCallback rejects with the id token left in sessionStorage while
\* no access token and no identity are in localStorage; the id token is not
\* removed before the next logout or clearLocalStorage.
IdTokenSurvivesUserInfoFailure ==
    [][/\ \A i \in 1..Len(calls), response \in UserInfoResponses :
              UserInfoFailsAfterIdToken(i, response)
                  => /\ calls'[i].pc = "threw" /\ calls'[i].error # None
                     /\ ss'.keycloak_id_token = calls[i].tokens[1].id_token
                     /\ ls'.access_token = None /\ ls'.user_info = None
       /\ (ss.keycloak_id_token # None /\ ss'.keycloak_id_token = None)
              => lo.pc = "clear"]_vars

\* C39 witness: handleCallback threw on the userinfo answer, the id token of
\* the exchange is in sessionStorage and localStorage holds no session.
IdTokenLeftAfterUserInfoFailure ==
    /\ \E i \in 1..Len(calls) :
           /\ calls[i].error # None
           /\ calls[i].error[1].name = "UserInfoFailed"
           /\ calls[i].tokens # None
           /\ ss.keycloak_id_token = calls[i].tokens[1].id_token
    /\ ss.keycloak_id_token # None
    /\ ls.access_token = None /\ ls.user_info = None

----------------------------------------------------------------------------
(* The constructor's defaults (ConstructorSpec) *)

\* C40: on every provider the constructor builds, base URL, realm and client
\* id are non-empty, so the provider is configured in every reachable state:
\* login() never fails with the not-configured error and the login handler
\* never shows the not-configured alert.
ConstructedProviderIsConfigured ==
    /\ provider.baseUrl # "" /\ provider.realm # "" /\ provider.clientId # ""
    /\ \A l \in logins : l.pc # "threw" /\ l.error = None
    /\ alert # Some(<<"Keycloak is not configured. Please check your environment variables.">>)

\* C40 witness: built with an empty base URL and an unset or empty client id,
\* the provider carries the two defaults and a login() on it has built its URL.
DefaultsAppliedAndLoginBuilt ==
    /\ provider.baseUrl = "http://localhost:8080/auth"
    /\ provider.realm = "demo"
    /\ provider.clientId = "react-oidc-app"
    /\ \E l \in logins : l.pc = "built" /\ l.authUrl # None

====
